---- MODULE Spec2Model ----
(***************************************************************************)
(* Model of argopy/fetchers.py: the two facades ArgoDataFetcher and        *)
(* ArgoIndexFetcher.  One facade object is followed from its construction  *)
(* through any sequence of access-point calls and terminal calls.  The     *)
(* backend fetchers, the option validators, the backend registry and the   *)
(* plotters are collaborators: they are modelled as stubs that tag what    *)
(* they return, so that the order and the number of the calls the facade   *)
(* makes can be read from the values.                                      *)
(*                                                                         *)
(* Python values are records with a "type" field; strings that are built   *)
(* with % or join are sequences of their pieces.                           *)
(***************************************************************************)
EXTENDS Integers, Sequences, FiniteSets, TLC

\* ------------------------------------------------------------------ bounds

\* number of backend fetchers a facade may construct in one behaviour
MaxFetchers == 2
\* WMO numbers that access-point calls are given: 1..MaxWmo
MaxWmo == 1

\* ------------------------------------------------------------ collaborators

\* Python's None
None == [type |-> "NoneType"]

\* a dataset argument that is the Python value None (ds=None)
DsNone == "<None>"

\* the enumerations the option validators accept
ModeNames == {"standard", "expert"}
SourceNames == {"erddap", "localftp", "argovis", "gdac"}
DatasetNames == {"phy", "bgc", "ref"}

\* _VALIDATORS[key](value): TRUE when the value is accepted
_VALIDATORS(key, value) ==
    CASE key = "mode" -> value \in ModeNames
      [] key = "src" -> value \in SourceNames
      [] key = "dataset" -> value \in DatasetNames

\* the registered backends: each declares its capability tags and its
\* dataset ids; "gdac" is an accepted source name with no registered backend
AVAILABLE_SOURCES ==
    [s \in {"erddap", "localftp", "argovis"} |->
        CASE s = "erddap" ->
               [access_points |-> <<"wmo", "box">>, dataset_ids |-> <<"phy", "ref", "bgc">>]
          [] s = "localftp" ->
               [access_points |-> <<"wmo", "other">>, dataset_ids |-> <<"phy", "bgc">>]
          [] s = "argovis" ->
               [access_points |-> <<"other", "box", "box">>, dataset_ids |-> <<"ref", "phy">>]]

\* a backend module with nothing declared (never read by the code as written:
\* line 96 raises before the lookup of an unregistered name)
NoBackend == [access_points |-> <<>>, dataset_ids |-> <<"phy">>]

\* AVAILABLE_SOURCES[src]
Backend(src) ==
    IF src \in DOMAIN AVAILABLE_SOURCES THEN AVAILABLE_SOURCES[src] ELSE NoBackend

\* the process-wide default options a facade may be constructed under
DefaultOptions ==
    [mode : ModeNames, src : {"erddap", "gdac"}, dataset : {"phy", "ref"}]

\* ------------------------------------------------------- strings and dicts

\* sep.join(keys)
RECURSIVE Join(_, _)
Join(keys, sep) ==
    IF Len(keys) = 0 THEN <<>>
    ELSE IF Len(keys) = 1 THEN <<keys[1]>>
    ELSE <<keys[1], sep>> \o Join(Tail(keys), sep)

\* the elements of a sequence
Range(s) == {s[i] : i \in DOMAIN s}

\* an empty dict: the keys in insertion order, and the values
EmptyDict == [keys |-> <<>>, vals |-> [k \in {} |-> ""]]

\* key in d
HasKey(d, key) == key \in Range(d.keys)

\* d[key] = val: a new key is appended, a known key keeps its place
DictSet(d, key, val) ==
    [keys |-> IF HasKey(d, key) THEN d.keys ELSE Append(d.keys, key),
     vals |-> [k \in Range(d.keys) \cup {key} |-> IF k = key THEN val ELSE d.vals[k]]]

\* ------------------------------------------------------------ stub backends

\* what the calls are given
Wmos == 1..MaxWmo
Cycs == {1}
Boxes == {<<-85, -45, 10, 20, 0, 1000>>}
\* the keyword arguments float(wmo, **kw) is called with (their names)
KwSets == {{}, {"CYC"}, {"cyc"}, {"CYC", "cyc"}, {"foo"}}
\* the **fetcher_kwargs a facade is constructed with (their names)
FetcherKwargs == {{}, {"cache"}}

\* Fetchers.Fetch_wmo(WMO=..., **options) and the other backend constructors:
\* the instance they return; id tells one instance from another
NewFetcher(ctor, src, args, options, id) ==
    [type |-> "Fetcher", id |-> id, ctor |-> ctor, src |-> src,
     args |-> args, options |-> options]

\* fetcher.to_xarray(): a dataset tagged with the instance that retrieved it
BackendToXarray(f) == [type |-> "Dataset", from |-> f.id, marks |-> <<>>]

\* fetcher.filter_data_mode(xds), filter_qc(xds), filter_variables(xds, mode):
\* each appends its marker and the instance it was called on
filter_data_mode(f, xds) ==
    [xds EXCEPT !.marks = Append(@, <<"filter_data_mode", f.id>>)]
filter_qc(f, xds) ==
    [xds EXCEPT !.marks = Append(@, <<"filter_qc", f.id>>)]
filter_variables(f, xds, mode) ==
    [xds EXCEPT !.marks = Append(@, <<"filter_variables", f.id, mode>>)]

\* xds.to_dataframe(): the tabular conversion of a dataset
DatasetToDataframe(xds) == [type |-> "DataFrame", of |-> xds]

\* index fetcher.to_dataframe(): an index table, its rows not sorted by file
BackendToDataframe(f) ==
    [type |-> "DataFrame", from |-> f.id, rows |-> <<f.id + 1, f.id>>]

\* ------------------------------------------------------------------- state

VARIABLES
    OPTIONS,   \* argopy.options.OPTIONS, the process-wide defaults
    facade,    \* the facade object, NoFacade until a construction succeeds
    result,    \* the last call: its name and arguments, what it returned or raised
    calls,     \* the collaborator calls the last call made, in order
    created,   \* how many backend fetchers the constructors have returned
    bound      \* how many access-point calls have returned

vars == <<OPTIONS, facade, result, calls, created, bound>>

NoFacade == [type |-> "NoFacade"]
NoCall == [op |-> "", args |-> <<>>, status |-> "", exc |-> "", msg |-> <<>>,
           value |-> None]

Raised(op, args, exc, msg) ==
    [op |-> op, args |-> args, status |-> "raised", exc |-> exc, msg |-> msg,
     value |-> None]
Returned(op, args, value) ==
    [op |-> op, args |-> args, status |-> "returned", exc |-> "", msg |-> <<>>,
     value |-> value]
\* "return self"
Self == [type |-> "self"]
\* a collaborator raised: the error goes to the caller as it is
BackendError(op, args) == Raised(op, args, "BackendError", <<>>)

IsData == facade # NoFacade /\ facade.cls = "ArgoDataFetcher"
IsIndex == facade # NoFacade /\ facade.cls = "ArgoIndexFetcher"

Init ==
    /\ OPTIONS \in DefaultOptions
    /\ facade = NoFacade
    /\ result = NoCall
    /\ calls = <<>>
    /\ created = 0
    /\ bound = 0

\* ----------------------------------------------------- ArgoDataFetcher.__init__

\* no check of the registry
src_available_always(src) == TRUE

\* "self._src not in AVAILABLE_SOURCES" (lines 96, 274), negated
src_available(src) == src \in DOMAIN AVAILABLE_SOURCES

\* the loop with "else" in place of the test for 'box'
RECURSIVE DataDiscover_else(_, _)
DataDiscover_else(access_points, d) ==
    IF access_points = <<>> THEN d
    ELSE LET p == Head(access_points)
             d1 == IF p = "wmo"
                   THEN DictSet(DictSet(d, "profile", "Fetch_wmo"), "float", "Fetch_wmo")
                   ELSE DictSet(d, "region", "Fetch_box")
         IN DataDiscover_else(Tail(access_points), d1)

\* the auto-discovery loop of ArgoDataFetcher.__init__ over the declared tags
RECURSIVE DataDiscover(_, _)
DataDiscover(access_points, d) ==
    IF access_points = <<>> THEN d
    ELSE LET p == Head(access_points)
             d1 == IF p = "wmo"
                   THEN DictSet(DictSet(d, "profile", "Fetch_wmo"), "float", "Fetch_wmo")
                   ELSE d
             d2 == IF p = "box" THEN DictSet(d1, "region", "Fetch_box") ELSE d1
         IN DataDiscover(Tail(access_points), d2)

\* a fetcher built by the constructor of the facade
InitialFetcher_eager ==
    NewFetcher("Fetch_wmo", "erddap", [WMO |-> 1], [kwargs |-> {}], 0)

\* "self.fetcher = None" at the end of both constructors
InitialFetcher == None

\* the object ArgoDataFetcher(mode, src, ds, **fetcher_kwargs) builds when none
\* of its checks raises
DataFacade(mode, src, ds, fetcher_kwargs) ==
    LET Fetchers == Backend(IF src = "" THEN OPTIONS.src ELSE src)
    IN [cls |-> "ArgoDataFetcher",
        _mode |-> IF mode = "" THEN OPTIONS.mode ELSE mode,
        _dataset_id |-> IF ds = "" THEN OPTIONS.dataset ELSE ds,
        _src |-> IF src = "" THEN OPTIONS.src ELSE src,
        valid_access_points |-> <<"profile", "float", "region">>,
        Fetchers |-> DataDiscover(Fetchers.access_points, EmptyDict),
        fetcher |-> InitialFetcher,
        fetcher_options |->
            [ds |-> IF ds = DsNone THEN Fetchers.dataset_ids[1] ELSE ds,
             kwargs |-> fetcher_kwargs],
        postproccessor |-> "__empty_processor"]

ArgoDataFetcher_init(mode, src, ds, fetcher_kwargs) ==
    LET args == [mode |-> mode, src |-> src, ds |-> ds]
        new == DataFacade(mode, src, ds, fetcher_kwargs)
        op == "ArgoDataFetcher"
    IN
    /\ facade = NoFacade
    /\ UNCHANGED <<OPTIONS, created, bound>>
    /\ IF ~_VALIDATORS("mode", new._mode)
       THEN /\ result' = Raised(op, args, "OptionValueError", <<"mode">>)
            /\ calls' = <<>>
            /\ UNCHANGED facade
       ELSE IF ~_VALIDATORS("src", new._src)
       THEN /\ result' = Raised(op, args, "OptionValueError", <<"src">>)
            /\ calls' = <<>>
            /\ UNCHANGED facade
       ELSE IF ~_VALIDATORS("dataset", new._dataset_id)
       THEN /\ result' = Raised(op, args, "OptionValueError", <<"dataset">>)
            /\ calls' = <<>>
            /\ UNCHANGED facade
       ELSE IF ~src_available(new._src)
       THEN /\ result' = Raised(op, args, "ValueError",
                                <<"Data fetcher '", new._src, "' not available">>)
            /\ calls' = <<>>
            /\ UNCHANGED facade
       ELSE /\ facade' = new
            /\ result' = Returned(op, args, Self)
            /\ calls' = IF new._dataset_id = "bgc" /\ new._mode = "standard"
                        THEN << <<"warnings.warn", 0>> >> ELSE <<>>

\* ------------------------------------------------ ArgoDataFetcher access points

\* the test for the upper-case keyword alone
cyc_in_kw_upper(kw) == "CYC" \in kw

\* "CYC" in kw or "cyc" in kw
cyc_in_kw(kw) == "CYC" \in kw \/ "cyc" \in kw

\* the TypeError of float(): its message, cut where it names the access point
CycMessage ==
    <<"float() got an unexpected keyword argument 'cyc'. Use '", "profile",
      "' access point to fetch specific profile data.">>

\* the message with the access point where the source belongs
NotAvailableMessage_key(key, src) == <<"'", key, "' not available with '", key, "' src">>

\* "'%s' not available with '%s' src" % (access point, self._src)
NotAvailableMessage(key, src) == <<"'", key, "' not available with '", src, "' src">>

\* the test without its dataset half
standard_applies_any_dataset(mode, dataset_id) == mode = "standard"

\* self._mode == 'standard' and self._dataset_id != 'ref'
standard_applies(mode, dataset_id) == mode = "standard" /\ dataset_id # "ref"

\* the end of float, profile and region: the closure is installed in standard
\* mode; nothing is assigned otherwise
install_postprocessor(self) ==
    IF standard_applies(self._mode, self._dataset_id)
    THEN [self EXCEPT !.postproccessor = "postprocessing"]
    ELSE self

\* a binding that is made once and kept
bind_fetcher_once(self, new) ==
    IF self.fetcher = None THEN [self EXCEPT !.fetcher = new] ELSE self

\* self.fetcher = <the instance the constructor returned>
bind_fetcher(self, new) == [self EXCEPT !.fetcher = new]

\* the shared body with the binding dropped before the constructor is called:
\* a constructor that raises leaves the facade with no fetcher
AccessPoint_unbinds(op, args, key, ctor_args, with_postprocessor) ==
    IF HasKey(facade.Fetchers, key)
    THEN LET ctor == facade.Fetchers.vals[key]
             new == NewFetcher(ctor, facade._src, ctor_args, facade.fetcher_options,
                               created + 1)
             bnd == bind_fetcher(facade, new)
         IN \/ /\ created < MaxFetchers
               /\ facade' = IF with_postprocessor THEN install_postprocessor(bnd) ELSE bnd
               /\ created' = created + 1
               /\ bound' = bound + 1
               /\ result' = Returned(op, args, Self)
               /\ calls' = << <<ctor, new.id>> >>
            \/ /\ result' = BackendError(op, args)
               /\ calls' = << <<ctor, 0>> >>
               /\ facade' = [facade EXCEPT !.fetcher = None]
               /\ UNCHANGED <<created, bound>>
    ELSE /\ result' = Raised(op, args, "InvalidFetcherAccessPoint",
                             NotAvailableMessage(key, facade._src))
         /\ calls' = <<>>
         /\ UNCHANGED <<facade, created, bound>>

\* the body the access-point methods share: the key is looked up in
\* self.Fetchers, the constructor is called with the identifiers and the stored
\* options, its instance is bound; the constructor may raise instead
AccessPoint(op, args, key, ctor_args, with_postprocessor) ==
    IF HasKey(facade.Fetchers, key)
    THEN LET ctor == facade.Fetchers.vals[key]
             new == NewFetcher(ctor, facade._src, ctor_args, facade.fetcher_options,
                               created + 1)
             bnd == bind_fetcher(facade, new)
         IN \/ /\ created < MaxFetchers
               /\ facade' = IF with_postprocessor THEN install_postprocessor(bnd) ELSE bnd
               /\ created' = created + 1
               /\ bound' = bound + 1
               /\ result' = Returned(op, args, Self)
               /\ calls' = << <<ctor, new.id>> >>
            \/ /\ result' = BackendError(op, args)
               /\ calls' = << <<ctor, 0>> >>
               /\ UNCHANGED <<facade, created, bound>>
    ELSE /\ result' = Raised(op, args, "InvalidFetcherAccessPoint",
                             NotAvailableMessage(key, facade._src))
         /\ calls' = <<>>
         /\ UNCHANGED <<facade, created, bound>>

ArgoDataFetcher_float(wmo, kw) ==
    LET args == [wmo |-> wmo, kw |-> kw]
    IN /\ IsData
       /\ UNCHANGED OPTIONS
       /\ IF cyc_in_kw(kw)
          THEN /\ result' = Raised("float", args, "TypeError", CycMessage)
               /\ calls' = <<>>
               /\ UNCHANGED <<facade, created, bound>>
          ELSE AccessPoint("float", args, "float", [WMO |-> wmo], TRUE)

ArgoDataFetcher_profile(wmo, cyc) ==
    /\ IsData
    /\ UNCHANGED OPTIONS
    /\ AccessPoint("profile", [wmo |-> wmo, cyc |-> cyc], "profile",
                   [WMO |-> wmo, CYC |-> cyc], TRUE)

ArgoDataFetcher_region(box) ==
    /\ IsData
    /\ UNCHANGED OPTIONS
    /\ AccessPoint("region", [box |-> box], "region", [box |-> box], TRUE)

\* ------------------------------------------------- ArgoDataFetcher terminal calls

\* "not self.fetcher", negated: None is false, a fetcher instance is true
fetcher_is_set(fetcher) == fetcher # None

\* the message with the facade's fixed list of names in place of the keys
InitializeMessage_valid(self) ==
    <<" Initialize an access point (">> \o Join(self.valid_access_points, ",")
        \o <<") first.">>

\* " Initialize an access point (%s) first." % ",".join(self.Fetchers.keys())
InitializeMessage(self) ==
    <<" Initialize an access point (">> \o Join(self.Fetchers.keys, ",") \o <<") first.">>

\* ArgoDataFetcher.__empty_processor
__empty_processor(xds) == xds

\* the chain with the quality filter ahead of the data-mode filter
postprocessing_qc_first(self, xds) ==
    LET xds1 == filter_qc(self.fetcher, xds)
        xds2 == filter_data_mode(self.fetcher, xds1)
    IN filter_variables(self.fetcher, xds2, self._mode)

\* the chain on the fetcher that was bound first: a closure that keeps the
\* instance it was defined with instead of reading self.fetcher when called
postprocessing_first_bound(self, xds) ==
    LET first == [self.fetcher EXCEPT !.id = 1]
        xds1 == filter_data_mode(first, xds)
        xds2 == filter_qc(first, xds1)
    IN filter_variables(first, xds2, self._mode)

\* the closure float, profile and region define: it reads self.fetcher and
\* self._mode when it is called
postprocessing(self, xds) ==
    LET xds1 == filter_data_mode(self.fetcher, xds)
        xds2 == filter_qc(self.fetcher, xds1)
    IN filter_variables(self.fetcher, xds2, self._mode)

\* self.postproccessor(xds)
postproccessor(self, xds) ==
    IF self.postproccessor = "postprocessing"
    THEN postprocessing(self, xds)
    ELSE __empty_processor(xds)

\* the filter calls a dataset went through, read from its markers
FilterCalls(xds) == [i \in DOMAIN xds.marks |-> <<xds.marks[i][1], xds.marks[i][2]>>]

\* the ways ArgoDataFetcher.to_xarray() can end: what it raises or returns and
\* the collaborator calls it made
DataToXarrayOutcomes(self) ==
    IF ~fetcher_is_set(self.fetcher)
    THEN {[status |-> "raised", exc |-> "InvalidFetcher", msg |-> InitializeMessage(self),
           value |-> None, calls |-> <<>>]}
    ELSE LET xds == postproccessor(self, BackendToXarray(self.fetcher))
         IN {[status |-> "returned", exc |-> "", msg |-> <<>>, value |-> xds,
              calls |-> << <<"to_xarray", self.fetcher.id>> >> \o FilterCalls(xds)],
             [status |-> "raised", exc |-> "BackendError", msg |-> <<>>, value |-> None,
              calls |-> << <<"to_xarray", self.fetcher.id>> >>]}

Outcome(op, args, o) ==
    [op |-> op, args |-> args, status |-> o.status, exc |-> o.exc, msg |-> o.msg,
     value |-> o.value]

ArgoDataFetcher_to_xarray ==
    /\ IsData
    /\ \E o \in DataToXarrayOutcomes(facade) :
          /\ result' = Outcome("to_xarray", <<>>, o)
          /\ calls' = o.calls
    /\ UNCHANGED <<OPTIONS, facade, created, bound>>

\* to_dataframe() converting what the fetcher retrieved, the post-processor
\* passed by
ArgoDataFetcher_to_dataframe_raw ==
    /\ IsData
    /\ IF ~fetcher_is_set(facade.fetcher)
       THEN /\ result' = Raised("to_dataframe", <<>>, "InvalidFetcher",
                                InitializeMessage(facade))
            /\ calls' = <<>>
       ELSE /\ result' = Returned("to_dataframe", <<>>,
                                  DatasetToDataframe(BackendToXarray(facade.fetcher)))
            /\ calls' = << <<"to_xarray", facade.fetcher.id>>,
                           <<"Dataset.to_dataframe", 0>> >>
    /\ UNCHANGED <<OPTIONS, facade, created, bound>>

ArgoDataFetcher_to_dataframe ==
    /\ IsData
    /\ \E o \in DataToXarrayOutcomes(facade) :
          IF o.status = "raised"
          THEN /\ result' = Outcome("to_dataframe", <<>>, o)
               /\ calls' = o.calls
          ELSE /\ result' = Returned("to_dataframe", <<>>, DatasetToDataframe(o.value))
               /\ calls' = Append(o.calls, <<"Dataset.to_dataframe", 0>>)
    /\ UNCHANGED <<OPTIONS, facade, created, bound>>

\* ---------------------------------------------------------- ArgoIndexFetcher

\* the auto-discovery loop of ArgoIndexFetcher.__init__ over the declared tags
RECURSIVE IndexDiscover(_, _)
IndexDiscover(access_points, d) ==
    IF access_points = <<>> THEN d
    ELSE LET p == Head(access_points)
             d1 == IF p = "wmo" THEN DictSet(d, "float", "IndexFetcher_wmo") ELSE d
             d2 == IF p = "box" THEN DictSet(d1, "region", "IndexFetcher_box") ELSE d1
         IN IndexDiscover(Tail(access_points), d2)

\* the object ArgoIndexFetcher(mode, src, **fetcher_kwargs) builds when none of
\* its checks raises; it has no dataset
IndexFacade(mode, src, fetcher_kwargs) ==
    LET Fetchers == Backend(IF src = "" THEN OPTIONS.src ELSE src)
    IN [cls |-> "ArgoIndexFetcher",
        _mode |-> IF mode = "" THEN OPTIONS.mode ELSE mode,
        _src |-> IF src = "" THEN OPTIONS.src ELSE src,
        valid_access_points |-> <<"float", "region">>,
        Fetchers |-> IndexDiscover(Fetchers.access_points, EmptyDict),
        fetcher |-> InitialFetcher,
        fetcher_options |-> [kwargs |-> fetcher_kwargs],
        postproccessor |-> "__empty_processor"]

ArgoIndexFetcher_init(mode, src, fetcher_kwargs) ==
    LET args == [mode |-> mode, src |-> src]
        new == IndexFacade(mode, src, fetcher_kwargs)
        op == "ArgoIndexFetcher"
    IN
    /\ facade = NoFacade
    /\ UNCHANGED <<OPTIONS, created, bound>>
    /\ calls' = <<>>
    /\ IF ~_VALIDATORS("mode", new._mode)
       THEN /\ result' = Raised(op, args, "OptionValueError", <<"mode">>)
            /\ UNCHANGED facade
       ELSE IF ~_VALIDATORS("src", new._src)
       THEN /\ result' = Raised(op, args, "OptionValueError", <<"src">>)
            /\ UNCHANGED facade
       ELSE IF ~src_available(new._src)
       THEN /\ result' = Raised(op, args, "ValueError",
                                <<"Fetcher '", new._src, "' not available">>)
            /\ UNCHANGED facade
       ELSE /\ facade' = new
            /\ result' = Returned(op, args, Self)

ArgoIndexFetcher_float(wmo) ==
    /\ IsIndex
    /\ UNCHANGED OPTIONS
    /\ AccessPoint("float", [wmo |-> wmo], "float", [WMO |-> wmo], FALSE)

ArgoIndexFetcher_region(box) ==
    /\ IsIndex
    /\ UNCHANGED OPTIONS
    /\ AccessPoint("region", [box |-> box], "region", [box |-> box], FALSE)

\* the ways ArgoIndexFetcher.to_dataframe() can end
IndexToDataframeOutcomes(self) ==
    IF ~fetcher_is_set(self.fetcher)
    THEN {[status |-> "raised", exc |-> "InvalidFetcher", msg |-> InitializeMessage(self),
           value |-> None, calls |-> <<>>]}
    ELSE {[status |-> "returned", exc |-> "", msg |-> <<>>,
           value |-> BackendToDataframe(self.fetcher),
           calls |-> << <<"to_dataframe", self.fetcher.id>> >>],
          [status |-> "raised", exc |-> "BackendError", msg |-> <<>>, value |-> None,
           calls |-> << <<"to_dataframe", self.fetcher.id>> >>]}

\* to_xarray() of the index facade with the filter chain of the data facade
IndexToXarrayOutcomes_filtered(self) ==
    IF ~fetcher_is_set(self.fetcher)
    THEN {[status |-> "raised", exc |-> "InvalidFetcher", msg |-> InitializeMessage(self),
           value |-> None, calls |-> <<>>]}
    ELSE LET xds == IF self._mode = "standard"
                    THEN postprocessing(self, BackendToXarray(self.fetcher))
                    ELSE BackendToXarray(self.fetcher)
         IN {[status |-> "returned", exc |-> "", msg |-> <<>>, value |-> xds,
              calls |-> << <<"to_xarray", self.fetcher.id>> >> \o FilterCalls(xds)],
             [status |-> "raised", exc |-> "BackendError", msg |-> <<>>, value |-> None,
              calls |-> << <<"to_xarray", self.fetcher.id>> >>]}

\* the ways ArgoIndexFetcher.to_xarray() can end
IndexToXarrayOutcomes(self) ==
    IF ~fetcher_is_set(self.fetcher)
    THEN {[status |-> "raised", exc |-> "InvalidFetcher", msg |-> InitializeMessage(self),
           value |-> None, calls |-> <<>>]}
    ELSE {[status |-> "returned", exc |-> "", msg |-> <<>>,
           value |-> BackendToXarray(self.fetcher),
           calls |-> << <<"to_xarray", self.fetcher.id>> >>],
          [status |-> "raised", exc |-> "BackendError", msg |-> <<>>, value |-> None,
           calls |-> << <<"to_xarray", self.fetcher.id>> >>]}

\* the ways ArgoIndexFetcher.to_csv(file) can end: DataFrame.to_csv(file) writes
\* the file and returns None
IndexToCsvOutcomes(self) ==
    IF ~fetcher_is_set(self.fetcher)
    THEN {[status |-> "raised", exc |-> "InvalidFetcher", msg |-> InitializeMessage(self),
           value |-> None, calls |-> <<>>]}
    ELSE {IF o.status = "raised" THEN o
          ELSE [o EXCEPT !.value = None,
                         !.calls = Append(@, <<"DataFrame.to_csv", 0>>)]
          : o \in IndexToDataframeOutcomes(self)}

ArgoIndexFetcher_to_dataframe ==
    /\ IsIndex
    /\ \E o \in IndexToDataframeOutcomes(facade) :
          /\ result' = Outcome("to_dataframe", <<>>, o)
          /\ calls' = o.calls
    /\ UNCHANGED <<OPTIONS, facade, created, bound>>

ArgoIndexFetcher_to_xarray ==
    /\ IsIndex
    /\ \E o \in IndexToXarrayOutcomes(facade) :
          /\ result' = Outcome("to_xarray", <<>>, o)
          /\ calls' = o.calls
    /\ UNCHANGED <<OPTIONS, facade, created, bound>>

ArgoIndexFetcher_to_csv(file) ==
    /\ IsIndex
    /\ \E o \in IndexToCsvOutcomes(facade) :
          /\ result' = Outcome("to_csv", [file |-> file], o)
          /\ calls' = o.calls
    /\ UNCHANGED <<OPTIONS, facade, created, bound>>

\* rows with x put in its place by file name
RECURSIVE Insert(_, _)
Insert(x, rows) ==
    IF rows = <<>> THEN <<x>>
    ELSE IF x <= Head(rows) THEN <<x>> \o rows
    ELSE <<Head(rows)>> \o Insert(x, Tail(rows))

RECURSIVE SortRows(_)
SortRows(rows) == IF rows = <<>> THEN <<>> ELSE Insert(Head(rows), SortRows(Tail(rows)))

\* idx.sort_values(['file'])
sort_values(idx) == [idx EXCEPT !.rows = SortRows(@)]

\* plot_trajectory(idx), plot_dac(idx), plot_profilerType(idx): a figure that
\* tells which plotter drew it and from what
Figure(plotter, idx) == [type |-> "Figure", by |-> plotter, of |-> idx]

\* the chain with the trajectory plot as its last branch
plot_dispatch_default(ptype, idx) ==
    IF ptype = "dac"
    THEN [status |-> "returned", exc |-> "", msg |-> <<>>,
          value |-> Figure("plot_dac", idx), calls |-> << <<"plot_dac", 0>> >>]
    ELSE IF ptype = "profiler"
    THEN [status |-> "returned", exc |-> "", msg |-> <<>>,
          value |-> Figure("plot_profilerType", idx),
          calls |-> << <<"plot_profilerType", 0>> >>]
    ELSE [status |-> "returned", exc |-> "", msg |-> <<>>,
          value |-> Figure("plot_trajectory", sort_values(idx)),
          calls |-> << <<"DataFrame.sort_values", 0>>, <<"plot_trajectory", 0>> >>]

\* the if/elif chain of plot() on the retrieved index
plot_dispatch(ptype, idx) ==
    IF ptype = "dac"
    THEN [status |-> "returned", exc |-> "", msg |-> <<>>,
          value |-> Figure("plot_dac", idx), calls |-> << <<"plot_dac", 0>> >>]
    ELSE IF ptype = "profiler"
    THEN [status |-> "returned", exc |-> "", msg |-> <<>>,
          value |-> Figure("plot_profilerType", idx),
          calls |-> << <<"plot_profilerType", 0>> >>]
    ELSE IF ptype = "trajectory"
    THEN [status |-> "returned", exc |-> "", msg |-> <<>>,
          value |-> Figure("plot_trajectory", sort_values(idx)),
          calls |-> << <<"DataFrame.sort_values", 0>>, <<"plot_trajectory", 0>> >>]
    ELSE [status |-> "raised", exc |-> "ValueError",
          msg |-> <<"Type of plot unavailable. Use: 'dac', 'profiler' or 'trajectory' (default)">>,
          value |-> None, calls |-> <<>>]

PlotTypes == {"trajectory", "dac", "profiler"}

\* plot() that looks at ptype before it retrieves the index
ArgoIndexFetcher_plot_ptype_first(ptype) ==
    /\ IsIndex
    /\ IF ptype \notin PlotTypes
       THEN /\ result' = Outcome("plot", [ptype |-> ptype], plot_dispatch(ptype, None))
            /\ calls' = <<>>
       ELSE \E o \in IndexToDataframeOutcomes(facade) :
               IF o.status = "raised"
               THEN /\ result' = Outcome("plot", [ptype |-> ptype], o)
                    /\ calls' = o.calls
               ELSE LET d == plot_dispatch(ptype, o.value)
                    IN /\ result' = Outcome("plot", [ptype |-> ptype], d)
                       /\ calls' = o.calls \o d.calls
    /\ UNCHANGED <<OPTIONS, facade, created, bound>>

ArgoIndexFetcher_plot(ptype) ==
    /\ IsIndex
    /\ \E o \in IndexToDataframeOutcomes(facade) :
          IF o.status = "raised"
          THEN /\ result' = Outcome("plot", [ptype |-> ptype], o)
               /\ calls' = o.calls
          ELSE LET d == plot_dispatch(ptype, o.value)
               IN /\ result' = Outcome("plot", [ptype |-> ptype], d)
                  /\ calls' = o.calls \o d.calls
    /\ UNCHANGED <<OPTIONS, facade, created, bound>>

\* ------------------------------------------------------------------ __getattr__

\* the attributes a facade object has: __getattr__ is called for any other name
Attributes(self) ==
    {"Fetchers", "fetcher", "fetcher_options", "postproccessor", "valid_access_points",
     "float", "region", "to_xarray", "to_dataframe"}
    \cup (IF self.cls = "ArgoDataFetcher" THEN {"profile"} ELSE {"to_csv", "plot"})

valid_attrs == {"Fetchers", "fetcher", "fetcher_options", "postproccessor"}

\* facade.<key> for a name the object does not have
getattr(key) ==
    /\ facade # NoFacade
    /\ key \notin Attributes(facade)
    /\ result' =
         IF key \notin Range(facade.valid_access_points) /\ key \notin valid_attrs
         THEN Raised("__getattr__", [key |-> key], "InvalidFetcherAccessPoint",
                     <<"'", key, "' is not a valid access point">>)
         ELSE Returned("__getattr__", [key |-> key], None)
    /\ calls' = <<>>
    /\ UNCHANGED <<OPTIONS, facade, created, bound>>

\* -------------------------------------------------------------- specification

Modes == ModeNames \cup {"", "bogus"}
Sources == SourceNames \cup {"", "bogus"}
Datasets == DatasetNames \cup {"", DsNone, "bogus"}

Next ==
    \/ \E mode \in Modes, src \in Sources, ds \in Datasets, kwargs \in FetcherKwargs :
          ArgoDataFetcher_init(mode, src, ds, kwargs)
    \/ \E wmo \in Wmos, kw \in KwSets : ArgoDataFetcher_float(wmo, kw)
    \/ \E wmo \in Wmos, cyc \in Cycs : ArgoDataFetcher_profile(wmo, cyc)
    \/ \E box \in Boxes : ArgoDataFetcher_region(box)
    \/ ArgoDataFetcher_to_xarray
    \/ ArgoDataFetcher_to_dataframe
    \/ \E mode \in Modes, src \in Sources, kwargs \in FetcherKwargs :
          ArgoIndexFetcher_init(mode, src, kwargs)
    \/ \E wmo \in Wmos : ArgoIndexFetcher_float(wmo)
    \/ \E box \in Boxes : ArgoIndexFetcher_region(box)
    \/ ArgoIndexFetcher_to_dataframe
    \/ ArgoIndexFetcher_to_xarray
    \/ ArgoIndexFetcher_to_csv("output_file.csv")
    \/ \E ptype \in PlotTypes \cup {"bogus"} : ArgoIndexFetcher_plot(ptype)
    \/ \E key \in {"profile", "bogus"} : getattr(key)

Spec == Init /\ [][Next]_vars

\* --------------------------------------------------------------- vocabulary

ConstructorOps == {"ArgoDataFetcher", "ArgoIndexFetcher"}
AccessPointOps == {"float", "profile", "region"}
TerminalOps == {"to_xarray", "to_dataframe", "to_csv"}
BackendConstructors == {"Fetch_wmo", "Fetch_box", "IndexFetcher_wmo", "IndexFetcher_box"}
Plotters == {"plot_trajectory", "plot_dac", "plot_profilerType"}
ConfigurationErrors == {"OptionValueError", "ValueError"}

Constructed == facade # NoFacade
Bound == facade # NoFacade /\ facade.fetcher # None

\* the collaborators the last call called, in order
Called == [i \in DOMAIN calls |-> calls[i][1]]

\* the capability tags the backend of the facade declares
Declared(self) == Range(Backend(self._src).access_points)

\* the access points a facade is to expose, from the declared tags
Exposed(self) ==
    (IF "wmo" \in Declared(self)
     THEN (IF self.cls = "ArgoDataFetcher" THEN {"float", "profile"} ELSE {"float"})
     ELSE {})
    \cup (IF "box" \in Declared(self) THEN {"region"} ELSE {})

\* the source name a construction resolved
ResolvedSrc == IF result.args.src = "" THEN OPTIONS.src ELSE result.args.src

\* -------------------------------------------------------------------- claims

\* C1: on a facade on which no access-point call has succeeded, every terminal
\* call (to_xarray, to_dataframe, to_csv) raises InvalidFetcher, its message
\* lists exactly the access points registered for the backend, and no
\* collaborator is called.
C1_TerminalBeforeAccessPoint ==
    (Constructed /\ bound = 0 /\ result.op \in TerminalOps) =>
        /\ result.status = "raised"
        /\ result.exc = "InvalidFetcher"
        /\ Range(result.msg) \cap AccessPointOps = Exposed(facade)
        /\ Len(result.msg) = 2 + (IF Exposed(facade) = {} THEN 0
                                  ELSE 2 * Cardinality(Exposed(facade)) - 1)
        /\ calls = <<>>

C1_Witness ==
    /\ IsData
    /\ facade._src = "localftp"
    /\ bound = 0
    /\ result.op = "to_dataframe"
    /\ result.exc = "InvalidFetcher"
    /\ result.msg = <<" Initialize an access point (", "profile", ",", "float", ") first.">>

\* C2: a facade is unbound exactly until its first access-point call returns
\* and never unbound again; on a bound facade no terminal call raises
\* InvalidFetcher; every access-point call that returns binds the fetcher its
\* constructor call just returned.
C2_NeverBackToUninitialized ==
    [][/\ Bound => Bound'
       /\ Constructed' => ((bound' > 0) <=> facade'.fetcher # None)
       /\ (Bound /\ result'.op \in TerminalOps) => result'.exc # "InvalidFetcher"
       /\ (bound' = bound + 1) =>
             /\ facade'.fetcher # facade.fetcher
             /\ facade'.fetcher.id = created + 1
             /\ calls' = << <<facade'.fetcher.ctor, created + 1>> >>]_vars

C2_Witness ==
    /\ Bound
    /\ bound >= 2
    /\ facade.fetcher.id = 2
    /\ result.op \in TerminalOps
    /\ result.status = "returned"

\* C3: in standard mode with a dataset other than "ref", what to_xarray()
\* returns is the dataset of the backend's to_xarray passed through
\* filter_data_mode, filter_qc, filter_variables, once each, in that order, all
\* after the retrieval, whichever access point bound the fetcher.
C3_StandardFilterChain ==
    (IsData /\ facade._mode = "standard" /\ facade._dataset_id # "ref"
            /\ result.op = "to_xarray" /\ result.status = "returned") =>
        /\ [i \in DOMAIN result.value.marks |-> result.value.marks[i][1]]
               = <<"filter_data_mode", "filter_qc", "filter_variables">>
        /\ [result.value EXCEPT !.marks = <<>>] = BackendToXarray(facade.fetcher)
        /\ Called = <<"to_xarray", "filter_data_mode", "filter_qc", "filter_variables">>

C3_Witness ==
    /\ IsData
    /\ facade._mode = "standard"
    /\ facade._dataset_id = "phy"
    /\ Bound
    /\ facade.fetcher.ctor = "Fetch_box"
    /\ result.op = "to_xarray"
    /\ result.status = "returned"
    /\ Len(result.value.marks) = 3

\* C4: when the mode is not "standard" or the dataset is "ref", the
\* post-processor is the identity in every state: to_xarray() returns what the
\* bound fetcher's to_xarray returned and no filter is called.
C4_IdentityPostprocessor ==
    (IsData /\ (facade._mode # "standard" \/ facade._dataset_id = "ref")) =>
        /\ facade.postproccessor = "__empty_processor"
        /\ (result.op = "to_xarray" /\ result.status = "returned") =>
              /\ result.value = BackendToXarray(facade.fetcher)
              /\ Called = <<"to_xarray">>

C4_Witness ==
    /\ IsData
    /\ facade._mode = "standard"
    /\ facade._dataset_id = "ref"
    /\ bound >= 2
    /\ result.op = "to_xarray"
    /\ result.status = "returned"

C7_UnregisteredSource ==
    (result.op \in ConstructorOps /\ ResolvedSrc \notin DOMAIN AVAILABLE_SOURCES) =>
        /\ result.status = "raised"
        /\ result.exc \in ConfigurationErrors
        /\ facade = NoFacade
        /\ calls = <<>>
        /\ created = 0

C7_Witness ==
    /\ result.op = "ArgoIndexFetcher"
    /\ result.args.src = "gdac"
    /\ result.args.mode = "expert"
    /\ result.exc = "ValueError"
    /\ facade = NoFacade

C9_AsClaimed ==
    (IsIndex /\ result.op = "plot") =>
        IF result.args.ptype \notin PlotTypes
        THEN result.status = "raised" /\ result.exc = "ValueError"
        ELSE /\ result.status = "returned"
             /\ result.value.type = "Figure"
             /\ result.value.by =
                   (CASE result.args.ptype = "trajectory" -> "plot_trajectory"
                      [] result.args.ptype = "dac" -> "plot_dac"
                      [] result.args.ptype = "profiler" -> "plot_profilerType")
             /\ Cardinality({i \in DOMAIN calls : calls[i][1] \in Plotters}) = 1

\* C9, amended: the same on a facade with a bound fetcher whose to_dataframe
\* returns; on an unbound facade plot raises InvalidFetcher, and an error of the
\* backend's to_dataframe is what plot raises, whatever the ptype, and no
\* plotter is called.
C9_PlotDispatch ==
    (IsIndex /\ result.op = "plot") =>
        IF ~Bound
        THEN /\ result.exc = "InvalidFetcher"
             /\ calls = <<>>
        ELSE IF result.exc = "BackendError"
        THEN Called = <<"to_dataframe">>
        ELSE IF result.args.ptype \notin PlotTypes
        THEN /\ result.status = "raised"
             /\ result.exc = "ValueError"
             /\ Called = <<"to_dataframe">>
        ELSE /\ result.status = "returned"
             /\ result.value.type = "Figure"
             /\ result.value.by =
                   (CASE result.args.ptype = "trajectory" -> "plot_trajectory"
                      [] result.args.ptype = "dac" -> "plot_dac"
                      [] result.args.ptype = "profiler" -> "plot_profilerType")
             /\ Cardinality({i \in DOMAIN calls : calls[i][1] \in Plotters}) = 1
             /\ calls[Len(calls)][1] = result.value.by
             /\ Called[1] = "to_dataframe"

C9_Witness ==
    /\ IsIndex
    /\ Bound
    /\ result.op = "plot"
    /\ result.args.ptype = "bogus"
    /\ result.exc = "ValueError"

\* C10: the constructors of the facades and the terminal calls create no
\* backend fetcher; an access-point call that returns has created exactly one
\* and bound it in place of the one before; one that raises has created none;
\* so the facade holds one fetcher or none, the one created last, and as many
\* fetchers were created as access-point calls returned.
C10_LazyOneAtATime ==
    /\ [](/\ created = bound
          /\ ~Constructed => created = 0
          /\ Constructed =>
                /\ facade.fetcher.type \in {"NoneType", "Fetcher"}
                /\ (created = 0) <=> (facade.fetcher = None)
                /\ (created > 0) => facade.fetcher.id = created)
    /\ [][/\ result'.op \notin AccessPointOps =>
                /\ created' = created
                /\ Range(Called') \cap BackendConstructors = {}
                /\ Constructed => facade'.fetcher = facade.fetcher
          /\ (result'.op \in AccessPointOps /\ result'.status = "returned") =>
                /\ created' = created + 1
                /\ Len(calls') = 1
                /\ calls'[1][1] \in BackendConstructors
                /\ facade'.fetcher.id = created'
          /\ (result'.op \in AccessPointOps /\ result'.status = "raised") =>
                /\ created' = created
                /\ facade'.fetcher = facade.fetcher]_vars

C10_Witness ==
    /\ IsIndex
    /\ created = 2
    /\ facade.fetcher.id = 2
    /\ facade.fetcher.ctor = "IndexFetcher_box"
    /\ result.op = "to_csv"
    /\ result.status = "returned"

\* C11: the index facade post-processes nothing: in every mode, after any
\* float and region calls, its post-processor is the identity, to_xarray()
\* returns what the bound fetcher's to_xarray returned and to_dataframe() what
\* its to_dataframe returned, and the retrieval is the only collaborator call.
C11_IndexNoPostprocessing ==
    IsIndex =>
        /\ facade.postproccessor = "__empty_processor"
        /\ (result.op = "to_xarray" /\ result.status = "returned") =>
              /\ result.value = BackendToXarray(facade.fetcher)
              /\ calls = << <<"to_xarray", facade.fetcher.id>> >>
        /\ (result.op = "to_dataframe" /\ result.status = "returned") =>
              /\ result.value = BackendToDataframe(facade.fetcher)
              /\ calls = << <<"to_dataframe", facade.fetcher.id>> >>

C11_Witness ==
    /\ IsIndex
    /\ facade._mode = "standard"
    /\ bound >= 2
    /\ facade.fetcher.ctor = "IndexFetcher_wmo"
    /\ result.op = "to_xarray"
    /\ result.status = "returned"
    /\ result.value.marks = <<>>

\* C12: to_dataframe() of the data facade ends as to_xarray() can end in the
\* same state: it raises what to_xarray raises (InvalidFetcher with the same
\* message when no fetcher is bound), or returns the tabular conversion of what
\* to_xarray returns, after one backend retrieval and the same chain: the three
\* filters in standard mode with a dataset other than "ref", none otherwise.
C12_DataframeOfXarray ==
    (IsData /\ result.op = "to_dataframe") =>
        /\ \E o \in DataToXarrayOutcomes(facade) :
              IF o.status = "raised"
              THEN /\ result.status = "raised"
                   /\ result.exc = o.exc
                   /\ result.msg = o.msg
                   /\ calls = o.calls
              ELSE /\ result.status = "returned"
                   /\ result.value = DatasetToDataframe(o.value)
                   /\ calls = Append(o.calls, <<"Dataset.to_dataframe", 0>>)
        /\ Cardinality({i \in DOMAIN calls : calls[i][1] = "to_xarray"})
              = (IF Bound THEN 1 ELSE 0)
        /\ ~Bound => result.exc = "InvalidFetcher"
        /\ result.status = "returned" =>
              /\ result.value.type = "DataFrame"
              /\ result.value.of.from = facade.fetcher.id
              /\ [i \in DOMAIN result.value.of.marks |-> result.value.of.marks[i][1]]
                    = (IF facade._mode = "standard" /\ facade._dataset_id # "ref"
                       THEN <<"filter_data_mode", "filter_qc", "filter_variables">>
                       ELSE <<>>)
              /\ Called[1] = "to_xarray"
              /\ Called[Len(Called)] = "Dataset.to_dataframe"

C12_Witness ==
    /\ IsData
    /\ facade._mode = "standard"
    /\ facade._dataset_id = "bgc"
    /\ Bound
    /\ result.op = "to_dataframe"
    /\ result.status = "returned"
    /\ Len(result.value.of.marks) = 3
    /\ Len(calls) = 5

\* C13: an access-point call that raises (the access point is not registered
\* for the backend, float is given a CYC or cyc keyword, or the backend
\* constructor raises) changes nothing of the facade: the bound fetcher or its
\* absence, the post-processor and the access-point mapping are as before, and
\* so are the ways a terminal call can end.
C13_FailedAccessPointFrame ==
    [][(result'.op \in AccessPointOps /\ result'.status = "raised") =>
          /\ facade'.fetcher = facade.fetcher
          /\ facade'.postproccessor = facade.postproccessor
          /\ facade'.Fetchers = facade.Fetchers
          /\ facade' = facade
          /\ created' = created
          /\ bound' = bound
          /\ IsData => DataToXarrayOutcomes(facade') = DataToXarrayOutcomes(facade)
          /\ IsIndex =>
                /\ IndexToDataframeOutcomes(facade') = IndexToDataframeOutcomes(facade)
                /\ IndexToXarrayOutcomes(facade') = IndexToXarrayOutcomes(facade)
                /\ IndexToCsvOutcomes(facade') = IndexToCsvOutcomes(facade)]_vars

C13_Witness ==
    /\ IsData
    /\ Bound
    /\ facade.postproccessor = "postprocessing"
    /\ facade.fetcher.ctor = "Fetch_wmo"
    /\ result.op = "region"
    /\ result.exc = "BackendError"
    /\ calls = << <<"Fetch_box", 0>> >>

\* C14: in standard mode with a dataset other than "ref", after any
\* access-point calls, the three filters to_xarray() applies are called on the
\* fetcher bound now, the instance created last, which is also the one that
\* retrieved the dataset; none is called on a fetcher bound before.
C14_FiltersOfBoundFetcher ==
    (IsData /\ facade._mode = "standard" /\ facade._dataset_id # "ref"
            /\ result.op = "to_xarray" /\ result.status = "returned") =>
        /\ facade.fetcher.id = created
        /\ result.value.from = facade.fetcher.id
        /\ Len(result.value.marks) = 3
        /\ \A i \in DOMAIN result.value.marks :
              result.value.marks[i][2] = facade.fetcher.id
        /\ \A i \in DOMAIN calls : calls[i][2] = facade.fetcher.id

C14_Witness ==
    /\ IsData
    /\ bound = 2
    /\ facade.fetcher.id = 2
    /\ facade.fetcher.ctor = "Fetch_box"
    /\ result.op = "to_xarray"
    /\ result.status = "returned"
    /\ result.value.marks =
          << <<"filter_data_mode", 2>>, <<"filter_qc", 2>>,
             <<"filter_variables", 2, "standard">> >>

\* C15, as claimed: the 'ds' entry of the stored fetcher options, and so the ds
\* every backend constructor is given, is the dataset identifier the facade
\* resolved, validated and tests to install the filter chain (self._dataset_id),
\* for every construction input, a dataset argument left unset included.
C15_DatasetHandedToBackend ==
    IsData =>
        /\ facade.fetcher_options.ds = facade._dataset_id
        /\ Bound => facade.fetcher.options.ds = facade._dataset_id

====
